---- MODULE Spec2Model ----
(***************************************************************************)
(* Model of the Sugarscape engine of src/Sugarscape.py: the resource field *)
(* (capacity, array), the agent list, the occupancy set and the population *)
(* history, driven by construction, step(), grow() and harvest().          *)
(* The Agent class (module SugarAgent) is not part of the sources; its     *)
(* contract is taken from sections 3 and 4.4 of the specification.         *)
(***************************************************************************)
EXTENDS Integers, Sequences, FiniteSets, TLC

VARIABLES
    pc,               \* position of the caller: "new", "failed", "idle",
                      \* "loop", "check", "random_loc", "crashed"
    n,                \* self.n
    params,           \* self.params
    capacity,         \* self.capacity
    array,            \* self.array
    agents,           \* self.agents: a list of Agent objects, each a record
                      \* whose field id stands for the object's identity
    occupied,         \* self.occupied (a set)
    agent_count_seq,  \* self.agent_count_seq
    random_order,     \* random_order of the running step(): object ids
    k,                \* how many entries of random_order the loop has taken
    agent,            \* the loop variable of step(): an object id
    center,           \* the argument `center` of the last look_and_move call
    sugar,            \* the local `sugar` of the last harvest call
    ret,              \* the value returned by the last step() call
    steps,            \* how many step() calls have returned
    before,           \* the ids of self.agents, in list order, when the
                      \* last step() began
    dead,             \* the ids of the agents the last step() found dead
    stayed,           \* <<id, cell>> of the agents that found every visible
                      \* cell occupied in the last step()
    calls             \* the grow() and harvest() calls made from outside
                      \* step(), in order

vars == <<pc, n, params, capacity, array, agents, occupied, agent_count_seq,
          random_order, k, agent, center, sugar, ret, steps, before, dead,
          stayed, calls>>

----------------------------------------------------------------------------
(* Bounds of the model *)

MaxN == 2
MaxAgents == 4
MaxVision == 2
MaxMetabolism == 1
MaxSugar == 1
MaxLifespan == 1
MaxGrowRate == 1
MaxSteps == 2
MaxActivations == 3
MaxCalls == 2
FieldAgents == 1
FairAgents == 2
ScenarioN == 10
RegrowN == 5
MaxCapacityN == 51

----------------------------------------------------------------------------
(* Program constants *)

Peak1 == 15
Peak2 == 35
\* the grid size of the program's main: Sugarscape(50, num_agents=200)
MainN == 50
Bins == <<21, 16, 11, 6>>

----------------------------------------------------------------------------
(* Helpers *)

Range(s) == {s[i] : i \in 1..Len(s)}

Injective(s) == \A i, j \in 1..Len(s) : s[i] = s[j] => i = j

Min(a, b) == IF a <= b THEN a ELSE b

\* np.random.permutation(list): every ordering of the list
Permutations4 == {p \in [1..4 -> 1..4] : Injective(p)}

\* mutant of PermutationsOf: the entries are drawn with replacement
PermutationsOf_repeat(s) ==
    {[i \in 1..Len(s) |-> s[p[i]]] : p \in [1..Len(s) -> 1..Len(s)]}

PermutationsOf(s) ==
    {[i \in 1..Len(s) |-> s[p[i]]] :
        p \in {q \in [1..Len(s) -> 1..Len(s)] : Injective(q)}}

----------------------------------------------------------------------------
(* Module-level functions of Sugarscape.py *)

\* make_locs(n, m): the indices of an n by m grid, row by row
make_locs(rows, cols) ==
    [r \in 1..(rows * cols) |-> <<(r - 1) \div cols, (r - 1) % cols>>]

Cells(size) == Range(make_locs(size, size))

\* make_array(d) inside make_visible_locs: the four cardinal offsets at
\* distance d, in any of the orders np.random.shuffle can leave them in
Offsets(d) == << <<0 - d, 0>>, <<d, 0>>, <<0, 0 - d>>, <<0, d>> >>

make_array(d) == {[i \in 1..4 |-> Offsets(d)[p[i]]] : p \in Permutations4}

\* distances_from(n, i, j), squared: hypot(X - i, Y - j)^2
distances_from(i, j, loc) ==
    (loc[1] - i) * (loc[1] - i) + (loc[2] - j) * (loc[2] - j)

\* np.digitize(dist, bins) for the decreasing bins: the number of bin edges
\* that are strictly greater than dist (compared on squares)
digitize(dist2) ==
    Cardinality({b \in 1..Len(Bins) : Bins[b] * Bins[b] > dist2})

----------------------------------------------------------------------------
(* Agent (SugarAgent.Agent), from the specification *)

\* the attributes a new agent draws at random
AgentDraws ==
    [vision : 1..MaxVision, metabolism : 1..MaxMetabolism,
     sugar : 1..MaxSugar]

\* Agent(loc, params): a new object, identified by id, at loc
Agent(id, loc, draw) ==
    [id |-> id, loc |-> loc, vision |-> draw.vision,
     metabolism |-> draw.metabolism, sugar |-> draw.sugar, age |-> 0]

is_starving(a) == a.sugar <= 0

is_old(a) == a.age > params.max_lifespan

\* Agent.step(env), after look_and_move returned dest and harvest returned
\* the sugar of that cell
agent_step(a, dest, harvested) ==
    [a EXCEPT !.loc = dest,
              !.sugar = a.sugar + harvested - a.metabolism,
              !.age = a.age + 1]

----------------------------------------------------------------------------
(* Sugarscape methods *)

Ids(s) == {s[i].id : i \in 1..Len(s)}

\* the object with identity id in the list s
Obj(s, id) == s[CHOOSE i \in 1..Len(s) : s[i].id = id]

\* the identity of a newly allocated object: one no live reference holds
FreshId == CHOOSE id \in 1..(2 * MaxAgents + 1) :
              /\ id \notin Ids(agents) \cup Range(random_order)
              /\ \A j \in 1..(id - 1) :
                    j \in Ids(agents) \cup Range(random_order)

\* mutant of make_capacity: the second peak is left out
make_capacity_one_peak(size) ==
    [loc \in Cells(size) |-> digitize(distances_from(Peak1, Peak1, loc))]

\* make_capacity
make_capacity(size) ==
    [loc \in Cells(size) |->
        digitize(Min(distances_from(Peak1, Peak1, loc),
                     distances_from(Peak2, Peak2, loc)))]

\* mutant of grow: nothing is added
grow_none(a) == a

\* mutant of grow: the sum is not capped
grow_nocap(a) == [loc \in DOMAIN a |-> a[loc] + params.grow_rate]

\* grow: np.minimum(self.array + grow_rate, self.capacity)
grow(a) ==
    [loc \in DOMAIN a |-> Min(a[loc] + params.grow_rate, capacity[loc])]

\* (loc + center) % self.n
Wrap(offset, c) == <<(offset[1] + c[1]) % n, (offset[2] + c[2]) % n>>

NoCell == <<0 - 1, 0 - 1>>

\* mutant of argmax: the smallest level wins
RECURSIVE argmax_min(_, _, _, _, _)
argmax_min(a, i, c, occ, best) ==
    IF i > Len(a) THEN best
    ELSE LET loc == Wrap(a[i], c) IN
         IF loc \in occ THEN argmax_min(a, i + 1, c, occ, best)
         ELSE IF best = NoCell \/ array[loc] < array[best]
              THEN argmax_min(a, i + 1, c, occ, loc)
              ELSE argmax_min(a, i + 1, c, occ, best)

\* mutant of argmax: the last maximum wins
RECURSIVE argmax_last(_, _, _, _, _)
argmax_last(a, i, c, occ, best) ==
    IF i > Len(a) THEN best
    ELSE LET loc == Wrap(a[i], c) IN
         IF loc \in occ THEN argmax_last(a, i + 1, c, occ, best)
         ELSE IF best = NoCell \/ array[loc] >= array[best]
              THEN argmax_last(a, i + 1, c, occ, loc)
              ELSE argmax_last(a, i + 1, c, occ, best)

\* np.argmax over the unoccupied cells, as a scan that keeps the first
\* maximum: `best` is the first maximum of the cells scanned so far (NoCell
\* when none was unoccupied) and the scan goes on through the cells of the
\* block `a` from position i
RECURSIVE argmax(_, _, _, _, _)
argmax(a, i, c, occ, best) ==
    IF i > Len(a) THEN best
    ELSE LET loc == Wrap(a[i], c) IN
         IF loc \in occ THEN argmax(a, i + 1, c, occ, best)
         ELSE IF best = NoCell \/ array[loc] > array[best]
              THEN argmax(a, i + 1, c, occ, loc)
              ELSE argmax(a, i + 1, c, occ, best)

\* look_and_move(center, vision) with self.occupied = occ: the cells it can
\* return.  make_visible_locs stacks one shuffled block per distance
\* d..vision; the scan of argmax runs through them in that order, and the
\* outcomes of the blocks' shuffles that leave the same first maximum are
\* taken together.  The result is the set of empty_locs[np.argmax(t)] over
\* all the kernels make_visible_locs can return (all 24^vision of them).
RECURSIVE look_and_move_from(_, _, _, _, _)
look_and_move_from(d, vision, c, occ, best) ==
    IF d > vision
    THEN {IF best = NoCell THEN c ELSE best}
    ELSE UNION {look_and_move_from(d + 1, vision, c, occ, b) :
                  b \in {argmax(a, 1, c, occ, best) : a \in make_array(d)}}

\* mutant of look_and_move: with no empty cell in sight the agent steps on
\* a neighbour
look_and_move_push(c, vision, occ) ==
    {IF dest = c THEN Wrap(Offsets(1)[1], c) ELSE dest :
        dest \in look_and_move_from(1, vision, c, occ, NoCell)}

\* mutant of look_and_move: the agent's own cell is a candidate too, and
\* wins when it holds more than the cell found
look_and_move_own(c, vision, occ) ==
    {IF c \in DOMAIN array /\ dest \in DOMAIN array /\ array[c] > array[dest]
     THEN c ELSE dest :
        dest \in look_and_move_from(1, vision, c, occ, NoCell)}

\* look_and_move(center, vision): the cells the call can return
look_and_move(c, vision, occ) == look_and_move_from(1, vision, c, occ, NoCell)

----------------------------------------------------------------------------
(* Actions *)

\* self.occupied.remove(loc), line 167
\* (the mutant leaves the cell marked)
occupied_remove_mut(occ, loc) == occ

occupied_remove(occ, loc) == occ \ {loc}

\* self.occupied.add(loc), lines 179 and 195
\* (the mutant leaves the cell unmarked)
occupied_add_mut(occ, loc) == occ

occupied_add(occ, loc) == occ \cup {loc}

\* self.agents.remove(agent), line 174: the object itself leaves the list
\* (one mutant keeps the agent, the other drops the head of the list)
agents_remove_keep(s, id) == s

agents_remove_head(s, id) == Tail(s)

agents_remove(s, id) == SelectSeq(s, LAMBDA b : b.id # id)

\* self.agent_count_seq.append(count), line 182
\* (the mutant forgets the earlier entries)
agent_count_seq_append_mut(seq, count) == <<count>>

agent_count_seq_append(seq, count) == Append(seq, count)

\* mutant of harvest: the whole array is emptied
harvest_all(a, loc) == [l \in DOMAIN a |-> 0]

\* harvest(loc): the array after self.array[loc] = 0
harvest(a, loc) == [a EXCEPT ![loc] = 0]

\* the starting_box values a caller passes (default: self.array.shape)
Boxes(size) == {<<1, 1>>, <<1, 2>>, <<2, 2>>, <<size, size>>}

Init ==
    /\ pc = "new"
    /\ n = 0
    /\ params = [num_agents |-> 0, starting_box |-> <<0, 0>>,
                 grow_rate |-> 0, replace |-> FALSE, max_lifespan |-> 0]
    /\ capacity = <<>>
    /\ array = <<>>
    /\ agents = <<>>
    /\ occupied = {}
    /\ agent_count_seq = <<>>
    /\ random_order = <<>>
    /\ k = 0
    /\ agent = 0
    /\ center = NoCell
    /\ sugar = 0
    /\ ret = 0
    /\ steps = 0
    /\ before = <<>>
    /\ dead = {}
    /\ stayed = {}
    /\ calls = <<>>

\* mutant of make_agents: the rows are drawn with replacement
make_agents_repeat(num, box) ==
    LET locs == make_locs(box[1], box[2]) IN
    IF num <= Len(locs)
    THEN \E shuffled \in [1..num -> Range(locs)],
            draws \in [1..num -> AgentDraws] :
            /\ agents' = [i \in 1..num |-> Agent(i, shuffled[i], draws[i])]
            /\ occupied' = {shuffled[i] : i \in 1..num}
            /\ pc' = "idle"
    ELSE /\ agents' = <<>>
         /\ occupied' = {}
         /\ pc' = "failed"

\* mutant of make_agents: too large a request is cut to the rows there are
make_agents_truncate(num, box) ==
    LET locs == make_locs(box[1], box[2])
        m == Min(num, Len(locs))
    IN  \E shuffled \in {s \in [1..m -> Range(locs)] : Injective(s)},
           draws \in [1..m -> AgentDraws] :
            /\ agents' = [i \in 1..m |-> Agent(i, shuffled[i], draws[i])]
            /\ occupied' = {shuffled[i] : i \in 1..m}
            /\ pc' = "idle"

\* make_agents: the first num_agents rows of the shuffled locs, one agent
\* on each; the assert fails when there are not enough rows
make_agents(num, box) ==
    LET locs == make_locs(box[1], box[2]) IN
    IF num <= Len(locs)
    THEN \E shuffled \in {s \in [1..num -> Range(locs)] : Injective(s)},
            draws \in [1..num -> AgentDraws] :
            /\ agents' = [i \in 1..num |-> Agent(i, shuffled[i], draws[i])]
            /\ occupied' = {shuffled[i] : i \in 1..num}
            /\ pc' = "idle"
    ELSE /\ agents' = <<>>
         /\ occupied' = {}
         /\ pc' = "failed"

\* Sugarscape(n, **params): __init__, for a num_agents of at most most
init(most) ==
    /\ pc = "new"
    /\ \E size \in 1..MaxN, num \in 0..most, rate \in 0..MaxGrowRate,
          rep \in BOOLEAN, life \in 1..MaxLifespan :
        \E box \in Boxes(size) :
            /\ n' = size
            /\ params' = [num_agents |-> num, starting_box |-> box,
                          grow_rate |-> rate, replace |-> rep,
                          max_lifespan |-> life]
            /\ agent_count_seq' = <<>>
            /\ capacity' = make_capacity(size)
            /\ array' = make_capacity(size)
            /\ make_agents(num, box)
    /\ UNCHANGED <<random_order, k, agent, center, sugar, ret, steps, before,
                   dead, stayed, calls>>

Construct == init(MaxAgents)

RECURSIVE Sum(_)
Sum(s) == IF s = <<>> THEN 0 ELSE Head(s) + Sum(Tail(s))

\* the iterations of the loop of step() run since construction: every step
\* visits the agents it starts with, the first one params.num_agents and
\* each later one the count the step before it recorded
Activations ==
    IF agent_count_seq = <<>> THEN 0
    ELSE params.num_agents
         + Sum(SubSeq(agent_count_seq, 1, Len(agent_count_seq) - 1))

\* step(), up to the head of the loop: the activation order is drawn
StepBegin ==
    /\ pc = "idle"
    /\ steps < MaxSteps
    /\ Activations + Len(agents) <= MaxActivations
    /\ random_order' \in PermutationsOf([i \in 1..Len(agents) |-> agents[i].id])
    /\ k' = 0
    /\ before' = [i \in 1..Len(agents) |-> agents[i].id]
    /\ dead' = {}
    /\ stayed' = {}
    /\ pc' = "loop"
    /\ UNCHANGED <<n, params, capacity, array, agents, occupied,
                   agent_count_seq, agent, center, sugar, ret, steps>>
    /\ UNCHANGED calls

\* every visible cell of c is occupied, whatever the kernel's order
AllVisibleOccupied(c, vision, occ) ==
    \A d \in 1..vision : \A i \in 1..4 : Wrap(Offsets(d)[i], c) \in occ

\* one iteration of the loop of step(), lines 164-170: the agent's cell is
\* released and agent.step(self) runs (look_and_move, harvest, metabolism,
\* ageing).  A cell missing from occupied (KeyError) or a harvest outside
\* the array (IndexError) ends step() with an exception.
Activate ==
    /\ pc = "loop"
    /\ k < Len(random_order)
    /\ k' = k + 1
    /\ agent' = random_order[k + 1]
    /\ LET a == Obj(agents, random_order[k + 1])
           occ == occupied_remove(occupied, a.loc)
       IN
       /\ center' = a.loc
       /\ IF a.loc \notin occupied
          THEN /\ pc' = "crashed"
               /\ UNCHANGED <<occupied, array, sugar, agents, stayed>>
          ELSE /\ occupied' = occ
               /\ stayed' = IF AllVisibleOccupied(a.loc, a.vision, occ)
                             THEN stayed \cup {<<a.id, a.loc>>} ELSE stayed
               /\ \E dest \in look_and_move(a.loc, a.vision, occ) :
                    IF dest \notin DOMAIN array
                    THEN /\ pc' = "crashed"
                         /\ agents' = [i \in 1..Len(agents) |->
                               IF agents[i].id = a.id
                               THEN [a EXCEPT !.loc = dest]
                               ELSE agents[i]]
                         /\ UNCHANGED <<array, sugar>>
                    ELSE /\ sugar' = array[dest]
                         /\ array' = harvest(array, dest)
                         /\ agents' = [i \in 1..Len(agents) |->
                               IF agents[i].id = a.id
                               THEN agent_step(a, dest, array[dest])
                               ELSE agents[i]]
                         /\ pc' = "check"
    /\ UNCHANGED <<n, params, capacity, agent_count_seq, random_order, ret,
                   steps, before, dead>>
    /\ UNCHANGED calls

\* mutant of Check: the cell of an agent found dead is marked as well
Check_remark ==
    /\ pc = "check"
    /\ LET a == Obj(agents, agent) IN
       IF is_starving(a) \/ is_old(a)
       THEN /\ agents' = agents_remove(agents, agent)
            /\ dead' = dead \cup {agent}
            /\ pc' = IF params.replace THEN "random_loc" ELSE "loop"
            /\ occupied' = occupied_add(occupied, a.loc)
       ELSE /\ occupied' = occupied_add(occupied, a.loc)
            /\ pc' = "loop"
            /\ UNCHANGED <<agents, dead>>
    /\ center' = NoCell
    /\ sugar' = 0
    /\ UNCHANGED <<n, params, capacity, array, agent_count_seq,
                   random_order, k, agent, ret, steps, before, stayed>>
    /\ UNCHANGED calls

\* the rest of the iteration, lines 172-179: a dead agent leaves the list
\* (and add_agent is entered when replace is set), a live one marks its cell
Check ==
    /\ pc = "check"
    /\ LET a == Obj(agents, agent) IN
       IF is_starving(a) \/ is_old(a)
       THEN /\ agents' = agents_remove(agents, agent)
            /\ dead' = dead \cup {agent}
            /\ pc' = IF params.replace THEN "random_loc" ELSE "loop"
            /\ UNCHANGED occupied
       ELSE /\ occupied' = occupied_add(occupied, a.loc)
            /\ pc' = "loop"
            /\ UNCHANGED <<agents, dead>>
    /\ center' = NoCell
    /\ sugar' = 0
    /\ UNCHANGED <<n, params, capacity, array, agent_count_seq,
                   random_order, k, agent, ret, steps, before, stayed>>
    /\ UNCHANGED calls

\* add_agent with one draw of the loop of random_loc: an occupied draw
\* goes round the loop again, a free one places the new agent
AddAgent ==
    /\ pc = "random_loc"
    /\ \E loc \in Cells(n) :
        IF loc \notin occupied
        THEN \E draw \in AgentDraws :
                /\ agents' = Append(agents, Agent(FreshId, loc, draw))
                /\ occupied' = occupied_add(occupied, loc)
                /\ pc' = "loop"
        ELSE UNCHANGED <<agents, occupied, pc>>
    /\ UNCHANGED <<n, params, capacity, array, agent_count_seq,
                   random_order, k, agent, center, sugar, ret, steps, before,
                   dead, stayed>>
    /\ UNCHANGED calls

\* the end of step(), lines 181-186: the count is recorded, the sugar
\* grows back and the count is returned
StepEnd ==
    /\ pc = "loop"
    /\ k = Len(random_order)
    /\ agent_count_seq' = agent_count_seq_append(agent_count_seq, Len(agents))
    /\ array' = grow(array)
    /\ ret' = Len(agents)
    /\ steps' = steps + 1
    /\ random_order' = <<>>
    /\ k' = 0
    /\ agent' = 0
    /\ pc' = "idle"
    /\ UNCHANGED <<n, params, capacity, agents, occupied, center, sugar,
                   before, dead, stayed>>
    /\ UNCHANGED calls

\* grow() called from outside step()
GrowCall ==
    /\ pc = "idle"
    /\ Len(calls) < MaxCalls
    /\ array' = grow(array)
    /\ calls' = Append(calls, <<"grow">>)
    /\ UNCHANGED <<pc, n, params, capacity, agents, occupied,
                   agent_count_seq, random_order, k, agent, center, sugar,
                   ret, steps, before, dead, stayed>>

\* harvest(loc) called from outside step(), for a cell of the array
HarvestCall ==
    /\ pc = "idle"
    /\ Len(calls) < MaxCalls
    /\ \E loc \in Cells(n) :
        /\ sugar' = array[loc]
        /\ array' = harvest(array, loc)
        /\ calls' = Append(calls, <<"harvest", loc>>)
    /\ UNCHANGED <<pc, n, params, capacity, agents, occupied,
                   agent_count_seq, random_order, k, agent, center, ret,
                   steps, before, dead, stayed>>

\* construction of an engine of at most FieldAgents agents
ConstructField == init(FieldAgents)

Next ==
    \/ Construct
    \/ StepBegin
    \/ Activate
    \/ Check
    \/ AddAgent
    \/ StepEnd

Spec == Init /\ [][Next]_vars

\* the engine with few agents, stepped and with grow() and harvest() also
\* called directly
NextField ==
    \/ ConstructField
    \/ StepBegin
    \/ Activate
    \/ Check
    \/ AddAgent
    \/ StepEnd
    \/ GrowCall
    \/ HarvestCall

SpecField == Init /\ [][NextField]_vars

\* Sugarscape(ScenarioN, num_agents=1, ...): one agent on the whole grid
ConstructScenario ==
    /\ pc = "new"
    /\ \E rate \in 0..MaxGrowRate, rep \in BOOLEAN, life \in 1..MaxLifespan :
            /\ n' = ScenarioN
            /\ params' = [num_agents |-> 1,
                          starting_box |-> <<ScenarioN, ScenarioN>>,
                          grow_rate |-> rate, replace |-> rep,
                          max_lifespan |-> life]
            /\ agent_count_seq' = <<>>
            /\ capacity' = make_capacity(ScenarioN)
            /\ array' = make_capacity(ScenarioN)
            /\ make_agents(1, <<ScenarioN, ScenarioN>>)
    /\ UNCHANGED <<random_order, k, agent, center, sugar, ret, steps, before,
                   dead, stayed, calls>>

\* the engine of the single-agent scenario, stepped
\* construction of an engine without agents, on a grid of up to RegrowN
\* rows: Sugarscape(n, num_agents=0, grow_rate=rate)
ConstructBare ==
    /\ pc = "new"
    /\ \E size \in 1..RegrowN, rate \in 0..MaxGrowRate, rep \in BOOLEAN,
          life \in 1..MaxLifespan :
            /\ n' = size
            /\ params' = [num_agents |-> 0, starting_box |-> <<size, size>>,
                          grow_rate |-> rate, replace |-> rep,
                          max_lifespan |-> life]
            /\ agent_count_seq' = <<>>
            /\ capacity' = make_capacity(size)
            /\ array' = make_capacity(size)
            /\ make_agents(0, <<size, size>>)
    /\ UNCHANGED <<random_order, k, agent, center, sugar, ret, steps, before,
                   dead, stayed, calls>>

\* grow() called from outside step() again and again, with no other call
\* in between: pc = "growing" from the first of these calls on
Regrow ==
    /\ pc \in {"idle", "growing"}
    /\ pc' = "growing"
    /\ array' = grow(array)
    /\ UNCHANGED <<n, params, capacity, agents, occupied, agent_count_seq,
                   random_order, k, agent, center, sugar, ret, steps, before,
                   dead, stayed, calls>>

\* the engine without agents: some harvest() and grow() calls, then grow()
\* alone, which the caller keeps calling
NextRegrow ==
    \/ ConstructBare
    \/ GrowCall
    \/ HarvestCall
    \/ Regrow

SpecRegrow == Init /\ [][NextRegrow]_vars /\ WF_vars(Regrow)

\* construction of an engine without agents on a grid of up to
\* MaxCapacityN rows: what make_capacity gives for each size
ConstructCapacity ==
    /\ pc = "new"
    /\ \E size \in 1..MaxCapacityN, rate \in 0..MaxGrowRate, rep \in BOOLEAN,
          life \in 1..MaxLifespan :
            /\ n' = size
            /\ params' = [num_agents |-> 0, starting_box |-> <<size, size>>,
                          grow_rate |-> rate, replace |-> rep,
                          max_lifespan |-> life]
            /\ agent_count_seq' = <<>>
            /\ capacity' = make_capacity(size)
            /\ array' = make_capacity(size)
            /\ make_agents(0, <<size, size>>)
    /\ UNCHANGED <<random_order, k, agent, center, sugar, ret, steps, before,
                   dead, stayed, calls>>

SpecCapacity == Init /\ [][ConstructCapacity]_vars

\* add_agent() called from outside step(): the call is entered
AddAgentCall ==
    /\ pc = "idle"
    /\ Len(calls) < MaxCalls
    /\ pc' = "add_agent"
    /\ calls' = Append(calls, <<"add_agent">>)
    /\ UNCHANGED <<n, params, capacity, array, agents, occupied,
                   agent_count_seq, random_order, k, agent, center, sugar,
                   ret, steps, before, dead, stayed>>

\* one draw of the loop of random_loc inside that add_agent() call: an
\* occupied draw goes round the loop again, a free one places the new
\* agent and the call returns
AddAgentDraw ==
    /\ pc = "add_agent"
    /\ \E loc \in Cells(n) :
        IF loc \notin occupied
        THEN \E draw \in AgentDraws :
                /\ agents' = Append(agents, Agent(FreshId, loc, draw))
                /\ occupied' = occupied_add(occupied, loc)
                /\ pc' = "idle"
        ELSE UNCHANGED <<agents, occupied, pc>>
    /\ UNCHANGED <<n, params, capacity, array, agent_count_seq,
                   random_order, k, agent, center, sugar, ret, steps, before,
                   dead, stayed, calls>>

\* the engine with few agents, stepped and with add_agent() also called
\* directly; a running loop of random_loc takes its next draw
NextAddAgent ==
    \/ ConstructField
    \/ StepBegin
    \/ Activate
    \/ Check
    \/ AddAgent
    \/ StepEnd
    \/ AddAgentCall
    \/ AddAgentDraw

SpecAddAgent ==
    Init /\ [][NextAddAgent]_vars /\ WF_vars(AddAgent) /\ WF_vars(AddAgentDraw)

\* construction of an engine of at most FairAgents agents
ConstructFair == init(FairAgents)

\* the engine stepped, where a step() that has begun keeps running: the
\* loop takes its next agent, and the loop of random_loc its next draw,
\* which sooner or later is a free cell when there is one
NextFair ==
    \/ ConstructFair
    \/ StepBegin
    \/ Activate
    \/ Check
    \/ AddAgent
    \/ StepEnd

SpecFair ==
    /\ Init /\ [][NextFair]_vars
    /\ WF_vars(Activate) /\ WF_vars(Check)
    /\ WF_vars(AddAgent) /\ WF_vars(StepEnd)

NextScenario ==
    \/ ConstructScenario
    \/ StepBegin
    \/ Activate
    \/ Check
    \/ AddAgent
    \/ StepEnd

SpecScenario == Init /\ [][NextScenario]_vars

----------------------------------------------------------------------------
(* Properties *)

Locs(s) == {s[i].loc : i \in 1..Len(s)}

IdSeq(s) == [i \in 1..Len(s) |-> s[i].id]

DistinctLocs(s) == \A i, j \in 1..Len(s) : s[i].loc = s[j].loc => i = j

BoxSize == params.starting_box[1] * params.starting_box[2]

\* the cells at a cardinal offset of distance 1..vision from c, wrapped
VisibleCells(c, vision) ==
    {Wrap(Offsets(d)[i], c) : d \in 1..vision, i \in 1..4}

\* the smallest distance of the kernel at which cell x is seen from c
KernelDistance(c, vision, x) ==
    CHOOSE d \in 1..vision :
        /\ \E i \in 1..4 : Wrap(Offsets(d)[i], c) = x
        /\ \A e \in 1..(d - 1) : \A i \in 1..4 : Wrap(Offsets(e)[i], c) # x

\* at pc = "check": the array as the last look_and_move call saw it
ArrayAtLook == [array EXCEPT ![Obj(agents, agent).loc] = sugar]

\* C1: whenever step() has returned (and right after construction),
\* occupied is exactly the set of the agents' locations, it has as many
\* cells as there are agents, and no two agents share a location.
C1_OccupiedMirrorsAgents ==
    pc = "idle" =>
        /\ occupied = Locs(agents)
        /\ Cardinality(occupied) = Len(agents)
        /\ DistinctLocs(agents)

C1_Witness ==
    /\ pc = "idle"
    /\ steps >= 1
    /\ params.replace
    /\ dead # {}
    /\ Len(agents) >= 2
    /\ \E i \in 1..Len(agents) : agents[i].age >= 1

\* C2: once the engine is constructed, whatever grow() and harvest() calls
\* were made, inside step() or from outside, every cell's level is at
\* least 0 and at most the cell's capacity.
C2_LevelWithinCapacity ==
    pc \notin {"new", "failed"} =>
        \A loc \in DOMAIN array :
            0 <= array[loc] /\ array[loc] <= capacity[loc]

C2_Witness ==
    /\ pc = "idle"
    /\ steps >= 1
    /\ params.grow_rate >= 1
    /\ Len(calls) = 2
    /\ calls[2] = <<"grow">>
    /\ \E loc \in DOMAIN array :
          /\ calls[1] = <<"harvest", loc>>
          /\ capacity[loc] > 0
          /\ array[loc] = capacity[loc]

\* C3: after k returned step() calls agent_count_seq has k entries; the
\* entry a step appends is len(agents) at the end of that step and the
\* value the step returns; no step changes or removes an earlier entry.
C3_HistoryRecordsEveryStep ==
    /\ [](Len(agent_count_seq) = steps)
    /\ [][/\ Len(agent_count_seq') >= Len(agent_count_seq)
           /\ SubSeq(agent_count_seq', 1, Len(agent_count_seq))
                = agent_count_seq
           /\ steps' # steps =>
                /\ steps' = steps + 1
                /\ Len(agent_count_seq') = steps'
                /\ agent_count_seq'[steps'] = Len(agents')
                /\ ret' = Len(agents')]_vars

C3_Witness ==
    /\ pc = "idle"
    /\ steps = 2
    /\ agent_count_seq[1] # agent_count_seq[2]

\* C4: with replace set, after a step no agent the step found dead is in
\* agents, and there are as many agents as when the step began.
C4_ReplaceKeepsPopulation ==
    (pc = "idle" /\ steps >= 1 /\ params.replace) =>
        /\ dead \cap Ids(agents) = {}
        /\ Len(agents) = Len(before)

C4_Witness ==
    /\ pc = "idle"
    /\ steps >= 1
    /\ params.replace
    /\ Cardinality(dead) >= 2

\* C5: with replace unset, after a step agents is the list the step began
\* with less the agents it found dead (one fewer per dead agent); an
\* iteration removes the activated agent exactly when it is starving or
\* old, and no step of a run adds an agent.
C5_NoReplaceShrinksByDead ==
    /\ []((pc = "idle" /\ steps >= 1 /\ ~params.replace) =>
            /\ IdSeq(agents) = SelectSeq(before, LAMBDA id : id \notin dead)
            /\ dead \subseteq Range(before)
            /\ Len(agents) = Len(before) - Cardinality(dead))
    /\ [][(pc = "check" /\ ~params.replace) =>
            LET a == Obj(agents, agent) IN
            IF is_starving(a) \/ is_old(a)
            THEN /\ IdSeq(agents') = SelectSeq(IdSeq(agents),
                                               LAMBDA id : id # agent)
                 /\ agent \in dead'
            ELSE /\ agents' = agents
                 /\ dead' = dead]_vars
    /\ [][(pc # "new" /\ ~params.replace) =>
            Ids(agents') \subseteq Ids(agents)]_vars

C5_Witness ==
    /\ pc = "idle"
    /\ steps >= 1
    /\ ~params.replace
    /\ dead # {}
    /\ agents # <<>>

\* C6: construction with num_agents no larger than the starting box
\* succeeds and leaves exactly num_agents agents, each on a cell of the
\* box, no two on the same cell, and occupied the set of their cells.
C6_ConstructionPlacesAgents ==
    /\ (pc # "new" /\ params.num_agents <= BoxSize) => pc # "failed"
    /\ (pc = "idle" /\ steps = 0) =>
        /\ Len(agents) = params.num_agents
        /\ \A i \in 1..Len(agents) :
              /\ agents[i].loc[1] \in 0..(params.starting_box[1] - 1)
              /\ agents[i].loc[2] \in 0..(params.starting_box[2] - 1)
        /\ DistinctLocs(agents)
        /\ occupied = Locs(agents)

C6_Witness ==
    /\ pc = "idle"
    /\ steps = 0
    /\ params.starting_box = <<2, 2>>
    /\ params.num_agents = 4
    /\ Cardinality(occupied) = 4

\* C7: construction with num_agents larger than the starting box fails:
\* there is no engine, and no shorter list of agents is made instead.
C7_ConstructionFailsWhenOverfull ==
    (pc # "new" /\ params.num_agents > BoxSize) =>
        /\ pc = "failed"
        /\ agents = <<>>
        /\ occupied = {}

C7_Witness ==
    /\ pc = "failed"
    /\ params.starting_box = <<1, 2>>
    /\ params.num_agents = 3

\* C8: when some visible cell is unoccupied, look_and_move returns a
\* visible cell that is unoccupied and whose level is at least the level
\* of every unoccupied visible cell.
C8_LookAndMoveBestVisible ==
    pc = "check" =>
        LET a == Obj(agents, agent)
            free == VisibleCells(center, a.vision) \ occupied
        IN  free # {} =>
              /\ a.loc \in VisibleCells(center, a.vision)
              /\ a.loc \notin occupied
              /\ \A c \in free : ArrayAtLook[a.loc] >= ArrayAtLook[c]

C8_Witness ==
    /\ pc = "check"
    /\ LET a == Obj(agents, agent)
           free == VisibleCells(center, a.vision) \ occupied
       IN  /\ VisibleCells(center, a.vision) \cap occupied # {}
           /\ \E c \in free : ArrayAtLook[c] < ArrayAtLook[a.loc]

\* C9: among the unoccupied visible cells that hold the maximal level,
\* none is nearer to the center, in kernel distance, than the returned one.
C9_TieGoesToNearest ==
    pc = "check" =>
        LET a == Obj(agents, agent)
            free == VisibleCells(center, a.vision) \ occupied
        IN  \A c \in free :
              ArrayAtLook[c] = ArrayAtLook[a.loc] =>
                KernelDistance(center, a.vision, c)
                    >= KernelDistance(center, a.vision, a.loc)

C9_Witness ==
    /\ pc = "check"
    /\ LET a == Obj(agents, agent)
           free == VisibleCells(center, a.vision) \ occupied
       IN  \E c \in free :
              /\ ArrayAtLook[c] = ArrayAtLook[a.loc]
              /\ KernelDistance(center, a.vision, c)
                    > KernelDistance(center, a.vision, a.loc)

\* C10: an agent activated with every visible cell occupied stays on its
\* cell (look_and_move returns center), and if it is still in agents when
\* the step has returned, that cell is in occupied.
C10_SurroundedAgentStays ==
    /\ \A st \in stayed :
          st[1] \in Ids(agents) => Obj(agents, st[1]).loc = st[2]
    /\ pc = "idle" =>
          \A st \in stayed : st[1] \in Ids(agents) => st[2] \in occupied

C10_Witness ==
    /\ pc = "idle"
    /\ \E st \in stayed : st[1] \in Ids(agents)

\* at pc = "check" in the scenario of one agent of vision 2 on the grid of
\* size ScenarioN: the agent has just been activated and no cell is marked
LoneAgentActivated ==
    /\ pc = "check"
    /\ n = ScenarioN
    /\ Len(agents) = 1
    /\ agents[1].vision = 2
    /\ occupied = {}

\* the cell at cardinal offset i of distance d from the looked-from cell
Neighbour(d, i) == Wrap(Offsets(d)[i], center)

\* the rest of the lone agent's step leaves it on cell dest, with the cell
\* it came from unmarked and dest marked
LoneAgentMovesTo(dest) ==
    /\ Len(agents') = 1
    /\ agents'[1].loc = dest
    /\ center \notin occupied'
    /\ dest \in occupied'

\* C11 as claimed: a lone agent of vision 2 with a distance-1 neighbour
\* that holds more sugar than the agent's own cell ends its step on that
\* neighbour, its old cell unmarked and the neighbour marked.
C11_MovesToRicherNeighbour ==
    [][LoneAgentActivated =>
        \A i \in 1..4 :
            ArrayAtLook[Neighbour(1, i)] > ArrayAtLook[center]
                => LoneAgentMovesTo(Neighbour(1, i))]_vars

\* C11 as amended: a lone agent of vision 2 with a distance-1 neighbour
\* that holds more sugar than each other distance-1 neighbour and at least
\* as much as each distance-2 cell, and that is not found dead in the
\* step, ends its step on that neighbour, its old cell unmarked and the
\* neighbour marked.
C11_MovesToBestNeighbour ==
    [][(/\ LoneAgentActivated
        /\ ~is_starving(agents[1])
        /\ ~is_old(agents[1])) =>
        \A i \in 1..4 :
            (/\ \A j \in 1..4 :
                    Neighbour(1, j) # Neighbour(1, i) =>
                        ArrayAtLook[Neighbour(1, i)]
                            > ArrayAtLook[Neighbour(1, j)]
             /\ \A j \in 1..4 :
                    ArrayAtLook[Neighbour(1, i)]
                        >= ArrayAtLook[Neighbour(2, j)])
                => LoneAgentMovesTo(Neighbour(1, i))]_vars

C11_Witness ==
    /\ LoneAgentActivated
    /\ ~is_starving(agents[1])
    /\ ~is_old(agents[1])
    /\ \E i \in 1..4 :
        /\ agents[1].loc = Neighbour(1, i)
        /\ ArrayAtLook[Neighbour(1, i)] > ArrayAtLook[center]
        /\ \A j \in 1..4 :
              Neighbour(1, j) # Neighbour(1, i) =>
                  ArrayAtLook[Neighbour(1, i)] > ArrayAtLook[Neighbour(1, j)]
        /\ \A j \in 1..4 :
              ArrayAtLook[Neighbour(1, i)] >= ArrayAtLook[Neighbour(2, j)]

\* C12: once the engine is constructed, every agent's location is a cell
\* of the n by n grid.
C12_LocationsInsideGrid ==
    pc \notin {"new", "failed"} =>
        \A i \in 1..Len(agents) : agents[i].loc \in Cells(n)

\* the step is a direct harvest(loc) call
IsHarvestCall(loc) ==
    /\ Len(calls') = Len(calls) + 1
    /\ calls'[Len(calls')] = <<"harvest", loc>>

\* C13: harvest(loc) returns the level loc held before the call, leaves
\* that level 0 and changes no other level, nor capacity, agents, occupied
\* or agent_count_seq.
C13_HarvestTakesOneCell ==
    [][\A loc \in DOMAIN array :
        IsHarvestCall(loc) =>
            /\ sugar' = array[loc]
            /\ array'[loc] = 0
            /\ \A other \in DOMAIN array \ {loc} :
                    array'[other] = array[other]
            /\ DOMAIN array' = DOMAIN array
            /\ UNCHANGED <<capacity, agents, occupied, agent_count_seq>>]_vars

C13_Witness ==
    /\ pc = "idle"
    /\ agents # <<>>
    /\ calls # <<>>
    /\ \E loc \in DOMAIN array :
        /\ calls[Len(calls)] = <<"harvest", loc>>
        /\ sugar > 0
        /\ array[loc] = 0
        /\ \E other \in DOMAIN array : array[other] > 0

\* the step is a call of grow()
IsGrowCall ==
    \/ pc' = "growing"
    \/ /\ Len(calls') = Len(calls) + 1
       /\ calls'[Len(calls')] = <<"grow">>

\* C14 as stated: once grow() is called again and again with no harvest in
\* between, the array eventually equals capacity in every cell, and a
\* grow() of an array that equals capacity leaves it unchanged.
C14_GrowReachesCapacity ==
    /\ (pc = "growing") ~> (array = capacity)
    /\ [][(IsGrowCall /\ array = capacity) => array' = array]_vars

\* C14 amended: for a positive grow_rate, once grow() is called again and
\* again with no harvest in between, the array eventually equals capacity
\* in every cell; for any grow_rate of at least 0, a grow() of an array that
\* equals capacity leaves it unchanged.
C14_PositiveRateReachesCapacity ==
    /\ (pc = "growing" /\ params.grow_rate > 0) ~> (array = capacity)
    /\ [][(IsGrowCall /\ array = capacity) => array' = array]_vars

C14_Witness ==
    /\ pc = "growing"
    /\ params.grow_rate > 0
    /\ array = capacity
    /\ calls # <<>>
    /\ \E loc \in DOMAIN array :
        /\ calls[Len(calls)] = <<"harvest", loc>>
        /\ capacity[loc] >= 2

\* the image of a cell under (i, j) -> (50 - i, 50 - j), the point
\* reflection that swaps (Peak1, Peak1) and (Peak2, Peak2)
Reflect(loc) == <<Peak1 + Peak2 - loc[1], Peak1 + Peak2 - loc[2]>>

\* C15 as stated: on the grid of the program's main, every cell has its
\* reflected image in the grid and holds the same capacity as that image.
C15_EveryCellHasEqualImage ==
    (pc = "idle" /\ n = MainN) =>
        \A loc \in Cells(n) :
            /\ Reflect(loc) \in DOMAIN capacity
            /\ capacity[loc] = capacity[Reflect(loc)]

\* C15 amended: on a grid of any size, every cell whose reflected image is
\* also a cell of the grid holds the same capacity as that image.
C15_CellsWithImageAreEqual ==
    pc = "idle" =>
        \A loc \in Cells(n) :
            Reflect(loc) \in DOMAIN capacity =>
                capacity[loc] = capacity[Reflect(loc)]

C15_Witness ==
    /\ pc = "idle"
    /\ n = MainN
    /\ capacity[<<Peak1, Peak1>>] = 4
    /\ capacity[<<Peak2, Peak2>>] = 4
    /\ capacity[<<1, 1>>] = 1
    /\ capacity[Reflect(<<1, 1>>)] = 1
    /\ capacity[<<0, 0>>] = 0
    /\ capacity[<<MainN - 1, MainN - 1>>] = 1

\* C16: a search for a free cell that has begun, inside step() or inside
\* a direct add_agent() call, always ends, by returning a cell or by
\* reporting a failure.
C16_RandomLocEnds ==
    (pc \in {"random_loc", "add_agent"}) ~>
        (pc \notin {"random_loc", "add_agent"})

\* every agent is on a cell of the grid
AllInGrid == \A i \in 1..Len(agents) : agents[i].loc \in Cells(n)

\* C18: with every agent inside the grid and at most n * n agents, at
\* every call of random_loc made during step() some cell of the grid is
\* not in occupied; the search then ends and the loop goes on, and a
\* step() that has begun returns.
C18_SearchHasFreeCell ==
    /\ []((pc = "random_loc" /\ AllInGrid /\ Len(agents) <= n * n) =>
            Cells(n) \ occupied # {})
    /\ (pc = "random_loc" /\ AllInGrid) ~> (pc = "loop")
    /\ (pc \in {"loop", "check", "random_loc"} /\ AllInGrid) ~> (pc = "idle")

C18_Witness ==
    /\ pc = "random_loc"
    /\ AllInGrid
    /\ Len(before) = n * n
    /\ Cardinality(Cells(n) \ occupied) = 1

\* a step() is running
InStep == pc \in {"loop", "check", "random_loc"}

\* C19: in each step() the agents activated are the agents of the list
\* when the step began, each exactly once: the activation order holds each
\* of them once and nothing else, the loop activates its entries in turn
\* and step() returns only after the last one.  An agent added during the
\* step is not in the order, and the order of the next step holds every
\* agent of the list, the added ones too.
C19_EachAgentActivatedOnce ==
    /\ [](InStep =>
            /\ Len(random_order) = Len(before)
            /\ Range(random_order) = Range(before)
            /\ Injective(random_order)
            /\ \A i \in 1..Len(agents) :
                    agents[i].id \notin Range(before) =>
                        agents[i].id \notin Range(random_order))
    /\ [][(pc = "loop" /\ k' = k + 1) =>
            /\ agent' = random_order[k + 1]
            /\ agent' \in Range(before)
            /\ agent' \notin {random_order[j] : j \in 1..k}]_vars
    /\ [][(pc = "random_loc" /\ pc' = "loop") =>
            /\ Len(agents') = Len(agents) + 1
            /\ agents'[Len(agents')].id \notin Range(before)
            /\ UNCHANGED <<random_order, k>>]_vars
    /\ [][(InStep /\ pc' = "idle") => k = Len(random_order)]_vars
    /\ [][(pc = "idle" /\ pc' = "loop") =>
            /\ Range(random_order') = Ids(agents)
            /\ before' = IdSeq(agents)]_vars

C19_Witness ==
    /\ pc = "check"
    /\ steps >= 1
    /\ agent > params.num_agents
    /\ Len(before) >= 1
    /\ k = Len(random_order)

\* C20: an agent of vision < n has just been activated: its own cell is
\* not among the cells it sees, and if some cell it sees is unoccupied it
\* has left its cell, so it stays only when every visible cell is occupied.
C20_OwnCellNotCandidate ==
    (pc = "check" /\ Obj(agents, agent).vision < n) =>
        LET a == Obj(agents, agent) IN
            /\ center \notin VisibleCells(center, a.vision)
            /\ (VisibleCells(center, a.vision) \ occupied # {}) =>
                    (a.loc # center /\ a.loc \notin occupied)
            /\ a.loc = center =>
                    VisibleCells(center, a.vision) \subseteq occupied

\* the agent left a cell that held strictly more than every cell it saw
C20_Witness ==
    /\ pc = "check"
    /\ Obj(agents, agent).vision < n
    /\ Obj(agents, agent).loc # center
    /\ \A x \in VisibleCells(center, Obj(agents, agent).vision) :
            ArrayAtLook[center] > ArrayAtLook[x]
====
